---- MODULE Spec2Model ----
(***************************************************************************)
(* Model of contiguous_set<T, BufferSize> (src/main.cpp): a sorted vector  *)
(* `items` plus a fixed-capacity log `op_buffer` of pending insert/erase   *)
(* operations that make_ready() reconciles into the vector.                *)
(*                                                                         *)
(* op_buffer is modelled by its live prefix op_buffer[0 .. buffer_ops):    *)
(* no code reads a slot at or beyond buffer_ops.  Sequences are 1-based,   *)
(* so the C++ element x[i] is x[i + 1] here; positions returned to the     *)
(* caller (iterators) are the 0-based offsets from items.begin().          *)
(***************************************************************************)
EXTENDS Integers, Sequences, FiniteSets, TLC

\* Bounds of the model: the template parameter BufferSize (64 by default)
\* and the largest element value.
BufferSize == 2
MaxVal == 2

Values == 0 .. MaxVal

\* enum ContainerState
Ready == 0
Modified == 1

\* enum BufferOperation
InsertItem == 0
DeleteItem == 1

VARIABLES
    op_buffer,   \* s.op_buffer[0 .. buffer_ops)
    buffer_ops,  \* s.buffer_ops
    state,       \* s.state
    items,       \* s.items
    other,       \* a second container (record with the same four fields)
    model,       \* reference mathematical set fed with the same calls
    last,        \* the last call: name, argument, returned value, and what
                 \* the container held when the call was made
    pc,          \* position of the calling program
    capacity,    \* s.items.capacity()
    it,          \* the caller's iterator, as an offset from items.begin()
    snapshot,    \* the store as it was when begin() returned
    observed     \* the values the caller's loop has dereferenced so far

vars == <<op_buffer, buffer_ops, state, items, other, model, last, pc,
          capacity, it, snapshot, observed>>

Range(seq) == {seq[k] : k \in 1 .. Len(seq)}

BufferItem(operation, value) == [operation |-> operation, value |-> value]

BufferItems == {BufferItem(o, v) : o \in {InsertItem, DeleteItem}, v \in Values}

\* BufferItem::operator<
BufferItemLess(a, b) ==
    IF a.operation = b.operation
    THEN a.value < b.value
    ELSE a.operation < b.operation

\* A container object.
Container(ob, n, st, its) ==
    [op_buffer |-> ob, buffer_ops |-> n, state |-> st, items |-> its]

\* contiguous_set(): empty log, Ready, empty vector.
NewContainer == Container(<<>>, 0, Ready, <<>>)

Self == Container(op_buffer, buffer_ops, state, items)

----------------------------------------------------------------------------
\* Standard-library algorithms used by the container.

\* std::lower_bound over seq[first, first + count): offset of the first
\* element that is not < val.
RECURSIVE std_lower_bound(_, _, _, _)
std_lower_bound(seq, val, first, count) ==
    IF count <= 0
    THEN first
    ELSE LET step == count \div 2
             mid == first + step
         IN IF seq[mid + 1] < val
            THEN std_lower_bound(seq, val, mid + 1, count - (step + 1))
            ELSE std_lower_bound(seq, val, first, step)

\* std::upper_bound: offset of the first element that val is < of.
RECURSIVE std_upper_bound(_, _, _, _)
std_upper_bound(seq, val, first, count) ==
    IF count <= 0
    THEN first
    ELSE LET step == count \div 2
             mid == first + step
         IN IF ~(val < seq[mid + 1])
            THEN std_upper_bound(seq, val, mid + 1, count - (step + 1))
            ELSE std_upper_bound(seq, val, first, step)

\* A membership test that looks at the first element only.
binary_search_front(seq, val) == seq # <<>> /\ seq[1] = val

\* std::binary_search(items.begin(), items.end(), val)
binary_search(seq, val) ==
    LET pos == std_lower_bound(seq, val, 0, Len(seq))
    IN pos # Len(seq) /\ ~(val < seq[pos + 1])

\* std::sort with BufferItem::operator<, as an insertion sort.
RECURSIVE SortedInsert(_, _)
SortedInsert(x, seq) ==
    IF seq = <<>>
    THEN <<x>>
    ELSE IF BufferItemLess(x, Head(seq))
         THEN <<x>> \o seq
         ELSE <<Head(seq)>> \o SortedInsert(x, Tail(seq))

RECURSIVE std_sort(_)
std_sort(seq) ==
    IF seq = <<>> THEN <<>> ELSE SortedInsert(Head(seq), std_sort(Tail(seq)))

\* The two runs left as they are, unmerged.
inplace_merge_skipped(a, b) == a \o b

\* std::inplace_merge of the adjacent runs a and b (stable: a first on ties).
RECURSIVE inplace_merge(_, _)
inplace_merge(a, b) ==
    IF a = <<>> THEN b
    ELSE IF b = <<>> THEN a
    ELSE IF b[1] < a[1]
         THEN <<b[1]>> \o inplace_merge(a, Tail(b))
         ELSE <<a[1]>> \o inplace_merge(Tail(a), b)

----------------------------------------------------------------------------
\* make_ready

\* Inner loop of the InsertItem branch: j runs over i + 1 .. buffer_ops - 1.
RECURSIVE ScanAdd(_, _, _, _, _)
ScanAdd(c, i, j, eventual_add, handled) ==
    IF ~(j < c.buffer_ops)
    THEN [eventual |-> eventual_add, handled |-> handled]
    ELSE IF c.op_buffer[i + 1].value = c.op_buffer[j + 1].value
         THEN IF c.op_buffer[j + 1].operation = InsertItem
              THEN ScanAdd(c, i, j + 1, TRUE, handled \cup {j})
              ELSE IF c.op_buffer[j + 1].operation = DeleteItem
                   THEN ScanAdd(c, i, j + 1, FALSE, handled \cup {j})
                   ELSE ScanAdd(c, i, j + 1, eventual_add, handled)
         ELSE ScanAdd(c, i, j + 1, eventual_add, handled)

\* Inner loop of the DeleteItem branch.
RECURSIVE ScanDelete(_, _, _, _, _)
ScanDelete(c, i, j, eventual_delete, handled) ==
    IF ~(j < c.buffer_ops)
    THEN [eventual |-> eventual_delete, handled |-> handled]
    ELSE IF c.op_buffer[i + 1].value = c.op_buffer[j + 1].value
         THEN IF c.op_buffer[j + 1].operation = InsertItem
              THEN ScanDelete(c, i, j + 1, FALSE, handled \cup {j})
              ELSE IF c.op_buffer[j + 1].operation = DeleteItem
                   THEN ScanDelete(c, i, j + 1, TRUE, handled \cup {j})
                   ELSE ScanDelete(c, i, j + 1, eventual_delete, handled)
         ELSE ScanDelete(c, i, j + 1, eventual_delete, handled)

\* Outer loop: builds optimised_op_buffer[0 .. write_command_pos), here the
\* sequence `optimised`; handled is the set of indices whose flag is true.
RECURSIVE ScanLog(_, _, _, _)
ScanLog(c, i, handled, optimised) ==
    IF ~(i < c.buffer_ops)
    THEN optimised
    ELSE IF i \in handled
         THEN ScanLog(c, i + 1, handled, optimised)
         ELSE LET cur == c.op_buffer[i + 1]
                  h == handled \cup {i}
              IN IF cur.operation = InsertItem
                 THEN LET r == ScanAdd(c, i, i + 1, TRUE, h)
                      IN ScanLog(c, i + 1, r.handled,
                            IF r.eventual /\ ~binary_search(c.items, cur.value)
                            THEN Append(optimised, cur)
                            ELSE optimised)
                 ELSE IF cur.operation = DeleteItem
                      THEN LET r == ScanDelete(c, i, i + 1, TRUE, h)
                           IN ScanLog(c, i + 1, r.handled,
                                 IF r.eventual /\ binary_search(c.items, cur.value)
                                 THEN Append(optimised, cur)
                                 ELSE optimised)
                      ELSE ScanLog(c, i + 1, h, optimised)

\* for(; inserts < write_command_pos; ++inserts) if(... == DeleteItem) break;
RECURSIVE CountInserts(_, _)
CountInserts(optimised, inserts) ==
    IF inserts < Len(optimised)
       /\ optimised[inserts + 1].operation # DeleteItem
    THEN CountInserts(optimised, inserts + 1)
    ELSE inserts

\* The delete pass over the merged vector.  Element i is only ever copied
\* to a slot write_item_pos <= i, so the slots still to be read are
\* untouched and the kept elements form the sequence `kept`.
RECURSIVE DeletePass(_, _, _, _, _)
DeletePass(merged, optimised, i, delete_pos, kept) ==
    IF ~(i < Len(merged))
    THEN [items |-> kept, delete_pos |-> delete_pos]
    ELSE IF delete_pos < Len(optimised)
            /\ merged[i + 1] = optimised[delete_pos + 1].value
         THEN DeletePass(merged, optimised, i + 1, delete_pos + 1, kept)
         ELSE DeletePass(merged, optimised, i + 1, delete_pos,
                         Append(kept, merged[i + 1]))

\* The locals of one make_ready run on a container with a non-empty log.
Reconciliation(c) ==
    LET optimised == std_sort(ScanLog(c, 0, {}, <<>>))
        inserts == CountInserts(optimised, 0)
        appended == [k \in 1 .. inserts |-> optimised[k].value]
        merged == inplace_merge(c.items, appended)
        del == DeletePass(merged, optimised, 0, inserts, <<>>)
    IN [optimised_op_buffer |-> optimised,
        write_command_pos |-> Len(optimised),
        inserts |-> inserts,
        delete_pos |-> del.delete_pos,
        items |-> del.items]

\* make_ready that applies the log and forgets to reset it.
make_ready_keeps_log(c) ==
    IF c.buffer_ops = 0
    THEN [c EXCEPT !.state = Ready]
    ELSE Container(c.op_buffer, c.buffer_ops, Ready, Reconciliation(c).items)
make_ready(c) ==
    IF c.buffer_ops = 0
    THEN [c EXCEPT !.state = Ready]
    ELSE Container(<<>>, 0, Ready, Reconciliation(c).items)

----------------------------------------------------------------------------
\* Mutating operations.

\* insert without the flush of a full log.
insert_unchecked(c, val) ==
    [c EXCEPT !.op_buffer = Append(c.op_buffer, BufferItem(InsertItem, val)),
              !.buffer_ops = c.buffer_ops + 1]

insert(c, val) ==
    LET r == IF c.buffer_ops = BufferSize THEN make_ready(c) ELSE c
    IN [r EXCEPT !.op_buffer = Append(r.op_buffer, BufferItem(InsertItem, val)),
                 !.buffer_ops = r.buffer_ops + 1]

\* erase that looks the value up in the store and logs nothing when absent.
erase_if_present(c, val) ==
    LET r == IF c.buffer_ops = BufferSize THEN make_ready(c) ELSE c
    IN IF binary_search(r.items, val)
       THEN [r EXCEPT !.op_buffer = Append(r.op_buffer, BufferItem(DeleteItem, val)),
                      !.buffer_ops = r.buffer_ops + 1]
       ELSE r
erase(c, val) ==
    LET r == IF c.buffer_ops = BufferSize THEN make_ready(c) ELSE c
    IN [r EXCEPT !.op_buffer = Append(r.op_buffer, BufferItem(DeleteItem, val)),
                 !.buffer_ops = r.buffer_ops + 1]

\* clear that empties the store and keeps the pending log.
clear_store_only(c) == [c EXCEPT !.items = <<>>]

\* clear() leaves `state` alone.
clear(c) == [c EXCEPT !.items = <<>>, !.op_buffer = <<>>, !.buffer_ops = 0]

\* swap that exchanges the logs and the stores and leaves each count behind.
swap_keeps_count(c, x) ==
    [c |-> Container(x.op_buffer, c.buffer_ops, x.state, x.items),
     x |-> Container(c.op_buffer, x.buffer_ops, c.state, c.items)]

\* c.swap(x): the containers after the call.  The calls swap(a, b) in its
\* body are read as what they are meant to be, std::swap of the two fields
\* (as written they name the one-argument member function itself).
swap(c, x) ==
    [c |-> Container(x.op_buffer, x.buffer_ops, x.state, x.items),
     x |-> Container(c.op_buffer, c.buffer_ops, c.state, c.items)]

----------------------------------------------------------------------------
\* Reading operations.  Each returns the container after the call (c) and
\* the returned value (ret); an iterator is its offset from items.begin().

begin(c) == LET r == make_ready(c) IN [c |-> r, ret |-> 0]

end(c) == LET r == make_ready(c) IN [c |-> r, ret |-> Len(r.items)]

empty(c) == LET r == make_ready(c) IN [c |-> r, ret |-> (Len(r.items) = 0)]

size(c) == LET r == make_ready(c) IN [c |-> r, ret |-> Len(r.items)]

\* The while loop of find.  An iteration that takes the last branch with
\* med = beg assigns beg its own value: beg and end are the only things the
\* loop changes, so the same iteration then repeats for ever and the call
\* does not return (returns = FALSE).
RECURSIVE find_loop(_, _, _, _)
find_loop(its, val, beg, end_) ==
    IF ~(beg < end_)
    THEN [returns |-> TRUE, pos |-> Len(its)]
    ELSE LET med == beg + ((end_ - beg) \div 2)
         IN IF its[med + 1] = val
            THEN [returns |-> TRUE, pos |-> med]
            ELSE IF its[med + 1] > val
                 THEN find_loop(its, val, beg, med)
                 ELSE IF med = beg
                      THEN [returns |-> FALSE, pos |-> beg]
                      ELSE find_loop(its, val, med, end_)

\* `return end();` names the local variable end; it is read as what it is
\* meant to be, the end-marker items.end().
find(c, val) ==
    LET r == make_ready(c)
        f == find_loop(r.items, val, 0, size(r).ret)
    IN [c |-> r, returns |-> f.returns, ret |-> f.pos]

count(c, val) ==
    LET f == find(c, val)
    IN [c |-> f.c, returns |-> f.returns,
        ret |-> IF f.ret # end(f.c).ret THEN 1 ELSE 0]

lower_bound(c, val) ==
    [c |-> c, ret |-> std_lower_bound(c.items, val, 0, Len(c.items))]

upper_bound(c, val) ==
    [c |-> c, ret |-> std_upper_bound(c.items, val, 0, Len(c.items))]

\* std::equal_range is the pair (lower_bound, upper_bound).
equal_range(c, val) ==
    [c |-> c, ret |-> <<std_lower_bound(c.items, val, 0, Len(c.items)),
                        std_upper_bound(c.items, val, 0, Len(c.items))>>]

----------------------------------------------------------------------------
\* The state machine of one container `s` driven through its public
\* interface.

\* An iterator: its offset from items.begin(), and whether it may be used.
Iterator(pos, valid) == [pos |-> pos, valid |-> valid]

\* What a call finds: the store and the number of pending log entries.
Found(c) == [items |-> c.items, buffer_ops |-> c.buffer_ops]

\* A call record: args is <<>> or <<val>>, ret is <<>> when nothing is returned.
Call(op, args, ret) ==
    [op |-> op, args |-> args, ret |-> ret, before |-> Found(Self)]

Becomes(c) ==
    /\ op_buffer' = c.op_buffer
    /\ buffer_ops' = c.buffer_ops
    /\ state' = c.state
    /\ items' = c.items

Frame == UNCHANGED <<other, capacity, it, snapshot, observed>>

Init ==
    /\ op_buffer = <<>>
    /\ buffer_ops = 0
    /\ state = Ready
    /\ items = <<>>
    /\ other = NewContainer
    /\ model = {}
    /\ last = [op |-> "new", args |-> <<>>, ret |-> <<>>, before |-> Found(NewContainer)]
    /\ pc = "idle"
    /\ capacity = 0
    /\ it = Iterator(0, TRUE)
    /\ snapshot = <<>>
    /\ observed = <<>>

\* s.insert(val), s.erase(val), s.clear(): the call itself.
InsertCall(val) ==
    /\ pc = "idle"
    /\ Becomes(insert(Self, val))
    /\ last' = Call("insert", <<val>>, <<>>)
    /\ UNCHANGED pc
    /\ Frame

EraseCall(val) ==
    /\ pc = "idle"
    /\ Becomes(erase(Self, val))
    /\ last' = Call("erase", <<val>>, <<>>)
    /\ UNCHANGED pc
    /\ Frame

ClearCall ==
    /\ pc = "idle"
    /\ Becomes(clear(Self))
    /\ last' = Call("clear", <<>>, <<>>)
    /\ UNCHANGED pc
    /\ Frame

Insert(val) == InsertCall(val) /\ UNCHANGED model

Erase(val) == EraseCall(val) /\ UNCHANGED model

Clear == ClearCall /\ UNCHANGED model

\* A call that returns r.ret and leaves the container as r.c.
Returns(op, args, r) ==
    /\ pc = "idle"
    /\ Becomes(r.c)
    /\ last' = Call(op, args, <<r.ret>>)
    /\ UNCHANGED <<model, pc>>
    /\ Frame

\* A call of find or count: it returns r.ret, or it never returns and the
\* program stays inside it.
Searches(op, args, r) ==
    /\ pc = "idle"
    /\ Becomes(r.c)
    /\ last' = Call(op, args, IF r.returns THEN <<r.ret>> ELSE <<>>)
    /\ pc' = IF r.returns THEN "idle" ELSE "hung"
    /\ UNCHANGED model
    /\ Frame

Begin == Returns("begin", <<>>, begin(Self))

End == Returns("end", <<>>, end(Self))

Empty == Returns("empty", <<>>, empty(Self))

Size == Returns("size", <<>>, size(Self))

\* max_size() is const: it answers items.max_size() and touches nothing.
MaxSize ==
    /\ pc = "idle"
    /\ last' = Call("max_size", <<>>, <<>>)
    /\ UNCHANGED <<op_buffer, buffer_ops, state, items, model, pc>>
    /\ Frame

Find(val) == Searches("find", <<val>>, find(Self, val))

Count(val) == Searches("count", <<val>>, count(Self, val))

LowerBound(val) == Returns("lower_bound", <<val>>, lower_bound(Self, val))

UpperBound(val) == Returns("upper_bound", <<val>>, upper_bound(Self, val))

EqualRange(val) == Returns("equal_range", <<val>>, equal_range(Self, val))

\* { contiguous_set<T> tmp; s.swap(tmp); }  -- s is exchanged with a fresh
\* container that is then destroyed.
SwapFresh ==
    /\ pc = "idle"
    /\ Becomes(swap(Self, NewContainer).c)
    /\ last' = Call("swap", <<>>, <<>>)
    /\ UNCHANGED <<model, pc>>
    /\ Frame

Next ==
    \/ \E val \in Values : Insert(val)
    \/ \E val \in Values : Erase(val)
    \/ Clear
    \/ Begin
    \/ End
    \/ Empty
    \/ Size
    \/ MaxSize
    \/ \E val \in Values : Find(val)
    \/ \E val \in Values : Count(val)
    \/ \E val \in Values : LowerBound(val)
    \/ \E val \in Values : UpperBound(val)
    \/ \E val \in Values : EqualRange(val)
    \/ SwapFresh

Spec == Init /\ [][Next]_vars

----------------------------------------------------------------------------
\* The container next to a reference mathematical set `model` that receives
\* the same calls: insert adds, erase removes, clear empties.

RefInsert(val) == InsertCall(val) /\ model' = model \cup {val}

RefErase(val) == EraseCall(val) /\ model' = model \ {val}

RefClear == ClearCall /\ model' = {}

NextRef ==
    \/ \E val \in Values : RefInsert(val)
    \/ \E val \in Values : RefErase(val)
    \/ RefClear
    \/ Begin
    \/ End
    \/ Empty
    \/ Size
    \/ \E val \in Values : LowerBound(val)
    \/ \E val \in Values : UpperBound(val)
    \/ \E val \in Values : EqualRange(val)

SpecRef == Init /\ [][NextRef]_vars

----------------------------------------------------------------------------
StrictlyIncreasing(seq) ==
    \A k \in 1 .. Len(seq) - 1 : seq[k] < seq[k + 1]

TypeOK ==
    /\ op_buffer \in Seq(BufferItems)
    /\ buffer_ops = Len(op_buffer)
    /\ state \in {Ready, Modified}
    /\ items \in Seq(Values)
    /\ model \subseteq Values
    /\ pc \in {"idle", "hung", "done", "iterating", "undefined"}
    /\ capacity \in Nat
    /\ it.pos \in Nat /\ it.valid \in BOOLEAN

\* Offset of val in the strictly increasing sequence seq, Len(seq) (the
\* end-marker) when val is not in it.
PositionOf(seq, val) ==
    IF val \in Range(seq)
    THEN (CHOOSE k \in 1 .. Len(seq) : seq[k] = val) - 1
    ELSE Len(seq)

\* C1: after any sequence of insert/erase calls followed by a reconciling
\* call (begin, end, empty, size), the store holds exactly the elements of
\* the reference set that received the same calls.
C1_SetEquivalence ==
    last.op \in {"begin", "end", "empty", "size"} => Range(items) = model

\* C2: the store is strictly increasing (hence duplicate-free) whenever
\* make_ready has returned, after every reconciliation.
C2_StoreStrictlyIncreasing == StrictlyIncreasing(items)

\* A reconciliation that started from a non-empty store (so not the first
\* one) and merged a new element in front of an existing one.
C2_Witness ==
    /\ last.op \in {"begin", "end", "empty", "size", "insert", "erase"}
    /\ last.before.items # <<>>
    /\ items # last.before.items
    /\ \E k \in 1 .. Len(items) - 1 :
          /\ items[k] \notin Range(last.before.items)
          /\ items[k + 1] \in Range(last.before.items)

\* C4: the log never holds more than BufferSize entries (and never a
\* negative number), and every insert or erase is accepted: its entry is the
\* last one of the log when the call returns.
C4_LogWithinCapacity ==
    /\ buffer_ops \in 0 .. BufferSize
    /\ Len(op_buffer) = buffer_ops
    /\ last.op = "insert" =>
          /\ buffer_ops >= 1
          /\ op_buffer[buffer_ops] = BufferItem(InsertItem, last.args[1])
    /\ last.op = "erase" =>
          /\ buffer_ops >= 1
          /\ op_buffer[buffer_ops] = BufferItem(DeleteItem, last.args[1])

\* An insert made on a full log has returned with its entry recorded.
C4_Witness ==
    /\ last.op = "insert"
    /\ last.before.buffer_ops = BufferSize
    /\ buffer_ops = 1

\* C5: lower_bound, upper_bound and equal_range return with an empty log and
\* answer on the set that all the recorded operations produce: the offset of
\* the first element >= val, respectively > val.
C5_BoundsReconcile ==
    LET lower == Cardinality({x \in model : x < last.args[1]})
        upper == Cardinality({x \in model : x <= last.args[1]})
    IN /\ last.op = "lower_bound" => buffer_ops = 0 /\ last.ret = <<lower>>
       /\ last.op = "upper_bound" => buffer_ops = 0 /\ last.ret = <<upper>>
       /\ last.op = "equal_range" =>
             buffer_ops = 0 /\ last.ret = <<<<lower, upper>>>>

\* C6: find(val) returns, with the log reconciled, the position of val in
\* the store when val is in it and the end-marker when it is not.
C6_FindPosition ==
    last.op = "find" =>
        /\ pc = "idle"
        /\ buffer_ops = 0
        /\ last.ret = <<PositionOf(items, last.args[1])>>

\* C7: count(val) returns 1 when val is in the reconciled store, 0 when not.
C7_CountMembership ==
    last.op = "count" =>
        /\ pc = "idle"
        /\ last.ret = <<IF last.args[1] \in Range(items) THEN 1 ELSE 0>>

\* C9: from any reachable state, inserting a value twice and reconciling
\* gives the same store as inserting it once and reconciling.
C9_InsertIdempotent ==
    pc = "idle" =>
        \A val \in Values :
            make_ready(insert(insert(Self, val), val)).items
                = make_ready(insert(Self, val)).items

\* The call made by this step runs make_ready: every reading call but the
\* bounds and max_size, and insert/erase when they find the log full.
RunsMakeReady ==
    \/ last'.op \in {"begin", "end", "empty", "size", "find", "count"}
    \/ last'.op \in {"insert", "erase"} /\ buffer_ops = BufferSize

\* C11 as stated: over all public operations (clear and swap included) the
\* store changes only inside a make_ready run, and a call that is a
\* make_ready run plus a read returns with the log empty.
C11_OnlyReconciliationMutates ==
    [][/\ items' # items => RunsMakeReady
       /\ last'.op \in {"begin", "end", "empty", "size", "find", "count"} =>
             buffer_ops' = 0 /\ op_buffer' = <<>>]_vars

\* C11 amended: the store changes only inside a make_ready run, or when
\* clear() empties it, or when swap() replaces it by the other container's
\* store; make_ready leaves the log empty when it returns.
C11_StoreChangesOnlyByReconcileClearSwap ==
    [][/\ items' # items =>
             \/ RunsMakeReady
             \/ last'.op = "clear" /\ items' = <<>>
             \/ last'.op = "swap" /\ items' = NewContainer.items
       /\ last'.op \in {"begin", "end", "empty", "size", "find", "count"} =>
             buffer_ops' = 0 /\ op_buffer' = <<>>]_vars

\* A reading call whose make_ready run changed the store and emptied the log.
C11_Witness ==
    /\ last.op \in {"begin", "end", "empty", "size", "find", "count"}
    /\ last.before.buffer_ops > 0
    /\ items # last.before.items
    /\ buffer_ops = 0

\* C12: when clear() returns the store is empty and no log entry is pending,
\* so that a size() called next returns 0.
C12_ClearDropsAll ==
    last.op = "clear" =>
        /\ items = <<>>
        /\ buffer_ops = 0
        /\ op_buffer = <<>>
        /\ size(Self).ret = 0

\* clear() was called on a container with stored elements and pending entries.
C12_Witness ==
    /\ last.op = "clear"
    /\ last.before.items # <<>>
    /\ last.before.buffer_ops > 0

\* C16: the binary-search loop of find terminates for every sorted store and
\* every searched value: a call of find always returns.
C16_FindTerminates == last.op = "find" => pc = "idle"

\* C19: in a container built by the default constructor, state is Ready
\* exactly when no log entry is pending and Modified when entries are pending.
C19_StateFollowsLog ==
    /\ state = Ready <=> buffer_ops = 0
    /\ state = Modified <=> buffer_ops > 0

\* C18: insert(v) and erase(v) called with room in the log (buffer_ops <
\* BufferSize) leave the store and the entries already logged as they are and
\* append exactly one entry, (InsertItem, v) or (DeleteItem, v), whether or
\* not v is in the store.
C18_AppendOnly ==
    [][last'.op \in {"insert", "erase"} /\ buffer_ops < BufferSize =>
          /\ items' = items
          /\ buffer_ops' = buffer_ops + 1
          /\ op_buffer' =
                Append(op_buffer,
                       BufferItem(IF last'.op = "insert" THEN InsertItem
                                                         ELSE DeleteItem,
                                  last'.args[1]))]_vars

\* insert of a stored value, or erase of an absent one, was appended to a
\* log that already held entries and had room.
C18_Witness ==
    /\ last.op \in {"insert", "erase"}
    /\ (last.op = "insert") <=> (last.args[1] \in Range(last.before.items))
    /\ last.before.items # <<>>
    /\ last.before.buffer_ops > 0
    /\ last.before.buffer_ops < BufferSize
    /\ buffer_ops = last.before.buffer_ops + 1

\* The set S after the logged operations, applied first to last.
RECURSIVE ApplyInOrder(_, _)
ApplyInOrder(S, log) ==
    IF log = <<>>
    THEN S
    ELSE ApplyInOrder(IF Head(log).operation = InsertItem
                      THEN S \cup {Head(log).value}
                      ELSE S \ {Head(log).value},
                      Tail(log))

\* C15: insert(v) or erase(v) on a full log first reconciles, then appends:
\* when the call returns the log holds the new operation alone and the store
\* is the store before the call with the BufferSize earlier operations
\* applied, the new one not yet.
C15_FlushThenAppend ==
    [][last'.op \in {"insert", "erase"} /\ buffer_ops = BufferSize =>
          /\ buffer_ops' = 1
          /\ op_buffer' =
                <<BufferItem(IF last'.op = "insert" THEN InsertItem
                                                    ELSE DeleteItem,
                             last'.args[1])>>
          /\ StrictlyIncreasing(items')
          /\ Range(items') = ApplyInOrder(Range(items), op_buffer)]_vars

----------------------------------------------------------------------------
\* One reconciliation of an arbitrary log against an arbitrary sorted store.

\* The elements of the set S in ascending order.
RECURSIVE Ascending(_)
Ascending(S) ==
    IF S = {}
    THEN <<>>
    ELSE LET m == CHOOSE x \in S : \A y \in S : x <= y
         IN <<m>> \o Ascending(S \ {m})

Logs == UNION {[1 .. n -> BufferItems] : n \in 0 .. BufferSize}

InitBatch ==
    /\ items \in {Ascending(S) : S \in SUBSET Values}
    /\ op_buffer \in Logs
    /\ buffer_ops = Len(op_buffer)
    /\ state = Ready
    /\ other = NewContainer
    /\ model = {}
    /\ last = [op |-> "new", args |-> <<>>, ret |-> <<>>, before |-> Found(NewContainer)]
    /\ pc = "idle"
    /\ capacity = 0
    /\ it = Iterator(0, TRUE)
    /\ snapshot = <<>>
    /\ observed = <<>>

\* make_ready on s; `other` keeps the container as it was before the run.
Reconcile ==
    /\ pc = "idle"
    /\ Becomes(make_ready(Self))
    /\ other' = Self
    /\ last' = Call("make_ready", <<>>, <<>>)
    /\ pc' = "done"
    /\ UNCHANGED <<model, capacity, it, snapshot, observed>>

NextBatch == Reconcile

SpecBatch == InitBatch /\ [][NextBatch]_vars

\* The last entry of the log on the value val.
LastOn(log, val) ==
    log[CHOOSE k \in 1 .. Len(log) :
            /\ log[k].value = val
            /\ \A j \in k + 1 .. Len(log) : log[j].value # val]

\* C3: after a log is reconciled against a sorted store, every value that
\* occurs in the log is in the store exactly when the last log entry on it
\* is an Insert, whether or not it was in the store before.
C3_LastWriteWins ==
    last.op = "make_ready" =>
        \A val \in {other.op_buffer[k].value : k \in 1 .. Len(other.op_buffer)} :
            val \in Range(items)
                <=> LastOn(other.op_buffer, val).operation = InsertItem

\* C17: the net-change list that make_ready builds from a log holds each
\* value at most once, a net Insert only of a value absent from the store
\* before the run, a net Delete only of a value present in it, and the delete
\* pass consumes every net delete (delete_pos = write_command_pos at the end).
C17_NetChangesConsistent ==
    last.op = "make_ready" /\ other.buffer_ops > 0 =>
        LET r == Reconciliation(other)
            net == r.optimised_op_buffer
        IN /\ \A j, k \in 1 .. r.write_command_pos :
                  net[j].value = net[k].value => j = k
           /\ \A k \in 1 .. r.write_command_pos :
                  /\ net[k].operation = InsertItem =>
                         net[k].value \notin Range(other.items)
                  /\ net[k].operation = DeleteItem =>
                         net[k].value \in Range(other.items)
           /\ r.delete_pos = r.write_command_pos

\* A run whose net-change list holds both an Insert and a Delete, all of
\* them consumed.
C17_Witness ==
    /\ last.op = "make_ready"
    /\ other.buffer_ops > 0
    /\ LET r == Reconciliation(other)
           net == r.optimised_op_buffer
       IN /\ r.delete_pos = r.write_command_pos
          /\ \E k \in 1 .. r.write_command_pos : net[k].operation = InsertItem
          /\ \E k \in 1 .. r.write_command_pos : net[k].operation = DeleteItem

----------------------------------------------------------------------------
\* Two containers fed with the same insert/erase calls: `s` is never read
\* (it reconciles only when its log is full), `other` is also read at
\* arbitrary points in between.

PairInsert(val) ==
    /\ Becomes(insert(Self, val))
    /\ other' = insert(other, val)
    /\ UNCHANGED <<model, last, pc>>
    /\ UNCHANGED <<capacity, it, snapshot, observed>>

PairErase(val) ==
    /\ Becomes(erase(Self, val))
    /\ other' = erase(other, val)
    /\ UNCHANGED <<model, last, pc>>
    /\ UNCHANGED <<capacity, it, snapshot, observed>>

OtherSize ==
    /\ other' = size(other).c
    /\ UNCHANGED <<op_buffer, buffer_ops, state, items, model, last, pc>>
    /\ UNCHANGED <<capacity, it, snapshot, observed>>

OtherBegin ==
    /\ other' = begin(other).c
    /\ UNCHANGED <<op_buffer, buffer_ops, state, items, model, last, pc>>
    /\ UNCHANGED <<capacity, it, snapshot, observed>>

NextPair ==
    \/ \E val \in Values : PairInsert(val)
    \/ \E val \in Values : PairErase(val)
    \/ OtherSize
    \/ OtherBegin

SpecPair == Init /\ [][NextPair]_vars

\* C8: the store after a final reconciliation is the same whether or not
\* reconciling reads were interleaved with the insert/erase calls.
C8_FlushPointsIrrelevant ==
    make_ready(Self).items = make_ready(other).items

----------------------------------------------------------------------------
\* The caller's loop  for(auto it = s.begin(); it != s.end(); ++it) use(*it);
\* with insert/erase calls made before it and from its body.
\*
\* An iterator into std::vector stays usable across a make_ready run only if
\* the vector did not reallocate (the resize at the top of the merge stayed
\* within capacity()) and the iterator designated an element both before the
\* run and after the final resize.  Using any other iterator is undefined
\* behaviour: the loop then leaves the defined part of the program
\* (pc = "undefined") and nothing is said about what it observes.

\* items.size() after the resize that makes room for the net inserts.
PeakSize(c) ==
    IF c.buffer_ops = 0
    THEN Len(c.items)
    ELSE Len(c.items) + Reconciliation(c).inserts

\* The capacities the vector can have after make_ready ran on c.  How far a
\* reallocation over-allocates is the library's choice: the growth policies
\* of libstdc++ (size + max(size, added)), libc++ (max(2 * capacity, size))
\* and MSVC (max(1.5 * capacity, size)).
Max(a, b) == IF a >= b THEN a ELSE b

CapacitiesAfter(c) ==
    IF PeakSize(c) > capacity
    THEN {Max(PeakSize(c), 2 * Len(c.items)),
          Max(PeakSize(c), 2 * capacity),
          Max(PeakSize(c), capacity + (capacity \div 2))}
    ELSE {capacity}

\* The caller's iterator after make_ready ran on c.
IteratorAfter(c) ==
    IF c.buffer_ops = 0
    THEN it
    ELSE Iterator(it.pos, /\ it.valid
                          /\ PeakSize(c) <= capacity
                          /\ it.pos < Len(c.items)
                          /\ it.pos < Len(make_ready(c).items))

IterInsert(val) ==
    /\ pc \in {"idle", "iterating"}
    /\ Becomes(insert(Self, val))
    /\ \E cap \in (IF buffer_ops = BufferSize
                   THEN CapacitiesAfter(Self) ELSE {capacity}) :
          /\ capacity' = cap
          /\ it' = IF pc = "iterating" /\ buffer_ops = BufferSize
                   THEN IteratorAfter(Self) ELSE it
    /\ UNCHANGED <<other, model, last, pc, snapshot, observed>>

IterErase(val) ==
    /\ pc \in {"idle", "iterating"}
    /\ Becomes(erase(Self, val))
    /\ \E cap \in (IF buffer_ops = BufferSize
                   THEN CapacitiesAfter(Self) ELSE {capacity}) :
          /\ capacity' = cap
          /\ it' = IF pc = "iterating" /\ buffer_ops = BufferSize
                   THEN IteratorAfter(Self) ELSE it
    /\ UNCHANGED <<other, model, last, pc, snapshot, observed>>

\* auto it = s.begin();
IterBegin ==
    /\ pc = "idle"
    /\ Becomes(begin(Self).c)
    /\ capacity' \in CapacitiesAfter(Self)
    /\ it' = Iterator(begin(Self).ret, TRUE)
    /\ snapshot' = begin(Self).c.items
    /\ observed' = <<>>
    /\ pc' = "iterating"
    /\ UNCHANGED <<other, model, last>>

\* it != s.end(), and when it holds: use(*it); ++it.
IterStep ==
    /\ pc = "iterating"
    /\ Becomes(end(Self).c)
    /\ \E cap \in CapacitiesAfter(Self) :
          /\ capacity' = cap
          /\ LET now == IteratorAfter(Self)
             IN IF ~now.valid
                THEN /\ pc' = "undefined"
                     /\ it' = now
                     /\ UNCHANGED observed
                ELSE IF now.pos # end(Self).ret
                     THEN /\ observed' =
                               Append(observed, end(Self).c.items[now.pos + 1])
                          /\ it' = Iterator(now.pos + 1, TRUE)
                          /\ UNCHANGED pc
                     ELSE /\ pc' = "done"
                          /\ it' = now
                          /\ UNCHANGED observed
    /\ UNCHANGED <<other, model, last, snapshot>>

NextIter ==
    \/ \E val \in Values : IterInsert(val)
    \/ \E val \in Values : IterErase(val)
    \/ IterBegin
    \/ IterStep

SpecIter == Init /\ [][NextIter]_vars

\* C10: the sequence a loop from begin() to end() observes is the store as
\* it was when begin() returned, whatever is recorded in the meantime.
C10_IterationFrozen ==
    /\ pc \in {"iterating", "done"} =>
          /\ Len(observed) <= Len(snapshot)
          /\ observed = SubSeq(snapshot, 1, Len(observed))
    /\ pc = "done" => observed = snapshot

----------------------------------------------------------------------------
\* s.swap(other), called twice, on a container `s` with any sorted store and
\* any log, and a second container that is new, holds one pending insert, or
\* holds one stored value.  Here last.before keeps both containers as they
\* were before the first call.

Others ==
    {NewContainer}
        \cup {insert(NewContainer, val) : val \in Values}
        \cup {make_ready(insert(NewContainer, val)) : val \in Values}

InitSwap ==
    /\ items \in {Ascending(S) : S \in SUBSET Values}
    /\ op_buffer \in Logs
    /\ buffer_ops = Len(op_buffer)
    /\ state = Ready
    /\ other \in Others
    /\ model = {}
    /\ last = [op |-> "new", args |-> <<>>, ret |-> <<>>,
               before |-> [c |-> NewContainer, x |-> NewContainer]]
    /\ pc = "idle"
    /\ capacity = 0
    /\ it = Iterator(0, TRUE)
    /\ snapshot = <<>>
    /\ observed = <<>>

Swap ==
    /\ pc \in {"idle", "swapped"}
    /\ Becomes(swap(Self, other).c)
    /\ other' = swap(Self, other).x
    /\ last' = [op |-> "swap", args |-> <<>>, ret |-> <<>>,
                before |-> IF pc = "idle"
                           THEN [c |-> Self, x |-> other]
                           ELSE last.before]
    /\ pc' = IF pc = "idle" THEN "swapped" ELSE "restored"
    /\ UNCHANGED <<model, capacity, it, snapshot, observed>>

NextSwap == Swap

SpecSwap == InitSwap /\ [][NextSwap]_vars

----------------------------------------------------------------------------
\* contiguous_set<T> s(other): the copy constructor, on a source with any
\* sorted store and any log, followed by one call on the new container.

\* Values an int that was never initialised may hold: negative, in range of
\* the log, and beyond it.
Indeterminate == -1 .. BufferSize + 1

\* The containers the constructor can leave in `s`.  Its member initialiser
\* list is empty, so buffer_ops, state and the slots of op_buffer keep
\* whatever the memory held; items starts empty, and items.resize(items.size())
\* keeps it empty.
CopyConstructed ==
    UNION {{Container(log, n, st, <<>>) :
               log \in IF n \in 1 .. BufferSize
                       THEN [1 .. n -> BufferItems]
                       ELSE {<<>>},
               st \in {Ready, Modified}} :
           n \in Indeterminate}

InitCopy ==
    /\ op_buffer = <<>>
    /\ buffer_ops = 0
    /\ state = Ready
    /\ items = <<>>
    /\ other \in {Container(log, Len(log), Ready, Ascending(S)) :
                     log \in Logs, S \in SUBSET Values}
    /\ model = {}
    /\ last = [op |-> "new", args |-> <<>>, ret |-> <<>>, before |-> Found(NewContainer)]
    /\ pc = "idle"
    /\ capacity = 0
    /\ it = Iterator(0, TRUE)
    /\ snapshot = <<>>
    /\ observed = <<>>

\* The constructor reconciles the source, then std::copy writes the source's
\* elements from items.begin() of the new, empty vector on: nothing for an
\* empty source, past the end of the vector (undefined: the program stops, or
\* goes on with the vector still empty) for any other.
Copy ==
    /\ pc = "idle"
    /\ other' = make_ready(other)
    /\ \E c \in CopyConstructed : Becomes(c)
    /\ pc' \in IF make_ready(other).items = <<>>
               THEN {"copied"}
               ELSE {"copied", "undefined"}
    /\ last' = [op |-> "copy", args |-> <<>>, ret |-> <<>>, before |-> Found(other)]
    /\ UNCHANGED <<model, capacity, it, snapshot, observed>>

\* A call on the new container.  insert and erase store at
\* op_buffer[buffer_ops] unless buffer_ops = BufferSize, and make_ready reads
\* op_buffer[i] and handled[i] for every i < buffer_ops: with buffer_ops
\* outside the range `defined` the call indexes outside the arrays
\* (undefined).
CopyCall(op, args, r, defined) ==
    /\ pc = "copied"
    /\ IF buffer_ops \in defined
       THEN /\ Becomes(r.c)
            /\ last' = Call(op, args, r.ret)
            /\ pc' = "used"
       ELSE /\ UNCHANGED <<op_buffer, buffer_ops, state, items>>
            /\ last' = Call(op, args, <<>>)
            /\ pc' = "undefined"
    /\ UNCHANGED model
    /\ Frame

CopyInsert(val) ==
    CopyCall("insert", <<val>>, [c |-> insert(Self, val), ret |-> <<>>],
             0 .. BufferSize)

CopyErase(val) ==
    CopyCall("erase", <<val>>, [c |-> erase(Self, val), ret |-> <<>>],
             0 .. BufferSize)

CopySize ==
    CopyCall("size", <<>>, [c |-> size(Self).c, ret |-> <<size(Self).ret>>],
             -1 .. BufferSize)

NextCopy ==
    \/ Copy
    \/ \E val \in Values : CopyInsert(val)
    \/ \E val \in Values : CopyErase(val)
    \/ CopySize

SpecCopy == InitCopy /\ [][NextCopy]_vars

\* C14: a container copy-constructed from `other`, whatever other's store and
\* pending log, holds other's reconciled contents and an empty log.
C14_CopyHoldsReconciledContents ==
    last.op = "copy" =>
        /\ pc = "copied"
        /\ items = other.items
        /\ buffer_ops = 0
        /\ op_buffer = <<>>

\* C20: every index used on the fixed-size arrays is in bounds: insert and
\* erase append at an index below BufferSize, make_ready reads the log only
\* at indices below BufferSize, and the net-change list it writes is no
\* longer than the log it read.
C20_IndicesInBounds ==
    /\ last.op \in {"insert", "erase"} =>
          (IF last.before.buffer_ops = BufferSize
           THEN 0
           ELSE last.before.buffer_ops) \in 0 .. BufferSize - 1
    /\ last.op = "size" => last.before.buffer_ops <= BufferSize
    /\ buffer_ops \in 1 .. BufferSize =>
          /\ Reconciliation(Self).write_command_pos <= buffer_ops
          /\ Reconciliation(Self).delete_pos <= Reconciliation(Self).write_command_pos

====
